---- MODULE Spec2Model ----
(***************************************************************************)
(* Model of crates/yewdux/src/context.rs: the per-thread registry of       *)
(* Context<S> values (get_or_init), and Context::reduce, subscribe,        *)
(* unsubscribe and notify_subscribers.                                     *)
(*                                                                         *)
(* Rc<S> allocations are cells of `heap`, Mrc<Context<S>> allocations are  *)
(* entries of `ctxs`; a pointer is the index of the cell it points to.     *)
(* The subscribers Slab is modelled with its entry vector and free list.   *)
(***************************************************************************)
EXTENDS Integers, Sequences, FiniteSets, TLC

\* ------------------------------------------------------------------ bounds

\* Largest state value explored (the u32 of TestState never gets near 2^32).
MaxVal == 2
\* Number of callbacks ever passed to subscribe.
MaxCb == 3
\* Smaller bounds of the two-Context specifications SpecTypes and SpecScopes.
RegMaxVal == 2
RegMaxCb == 2

\* ------------------------------------------------------------- vocabulary

\* Execution scopes: the threads that own a CONTEXTS thread local.
Scopes == {"main", "worker"}
\* State types S for which get_or_init::<S>() is called.
Types == {"TestState", "Counter"}
\* Closures passed to reduce.
Mutations == {"nop", "inc", "dec", "zero"}

\* ------------------------------------------------------------ Store impls

\* impl Store for TestState: fn new() -> Self { Self(0) }
TestStateNew == 0

\* impl Store for TestState: fn changed(&mut self) { self.0 += 1 }
TestStateChanged(v) == v + 1

\* Counter { n: u32 } of the specification's scenario: new() is {n: 0}.
CounterNew == 0

\* The default changed hook of the Store contract: a no-op.
CounterChanged(v) == v

\* S::new() for the state type ty.
StoreNew(ty) == IF ty = "TestState" THEN TestStateNew ELSE CounterNew

\* store.changed() for the state type ty.
StoreChanged(ty, v) == IF ty = "TestState" THEN TestStateChanged(v) ELSE CounterChanged(v)

\* f(store): the closure applied to the exclusive reference.
Apply(f, v) ==
    CASE f = "nop" -> v
      [] f = "inc" -> v + 1
      [] f = "dec" -> v - 1
      [] f = "zero" -> 0

\* ------------------------------------------------------------------- Slab

Occupied(cb) == [occ |-> TRUE, val |-> cb, nxt |-> 0]
Vacant(n) == [occ |-> FALSE, val |-> 0, nxt |-> n]

\* subscribers: Default::default(): an empty Slab.
SlabNew == [entries |-> <<>>, next |-> 0, len |-> 0]

\* Slab keys are 0-based; entries is a 1-based sequence.
SlabContains(s, key) ==
    /\ key + 1 \in DOMAIN s.entries
    /\ s.entries[key + 1].occ

\* Mutant: the number of stored values is taken as the next key.
SlabVacantKeyByLen(s) == s.len

\* The key the next insert returns: the head of the free list.
SlabVacantKey(s) == s.next

\* Slab::insert(val): fill the head of the free list, or push at the end.
SlabInsert(s, cb) ==
    LET key == SlabVacantKey(s) IN
    IF key = Len(s.entries)
    THEN [entries |-> Append(s.entries, Occupied(cb)),
          next |-> key + 1,
          len |-> s.len + 1]
    ELSE [entries |-> [s.entries EXCEPT ![key + 1] = Occupied(cb)],
          next |-> s.entries[key + 1].nxt,
          len |-> s.len + 1]

\* Mutant: the whole slab is cleared.
SlabRemoveClears(s, key) == [entries |-> <<>>, next |-> 0, len |-> 0]

\* Mutant: the slot is put on the free list but its value is left in place.
SlabRemoveKeepsValue(s, key) ==
    [entries |-> s.entries, next |-> key, len |-> s.len - 1]

\* Slab::remove(key) on an occupied key: the slot becomes the free-list head.
SlabRemove(s, key) ==
    [entries |-> [s.entries EXCEPT ![key + 1] = Vacant(s.next)],
     next |-> key,
     len |-> s.len - 1]

\* for (_, subscriber) in &slab: the occupied keys in index order.
SlabKeys(s) == {k \in 0..(Len(s.entries) - 1) : s.entries[k + 1].occ}

RECURSIVE SlabIterFrom(_, _)
SlabIterFrom(s, k) ==
    IF k >= Len(s.entries) THEN <<>>
    ELSE IF s.entries[k + 1].occ
         THEN <<s.entries[k + 1].val>> \o SlabIterFrom(s, k + 1)
         ELSE SlabIterFrom(s, k + 1)

SlabIter(s) == SlabIterFrom(s, 0)

\* ------------------------------------------------------------------ state

VARIABLES
    contexts,   \* the CONTEXTS thread locals: thread-local key -> (AnyMap key -> Mrc pointer)
    ctxs,       \* the Mrc<Context<S>> allocations: pointer -> Context
    heap,       \* the Rc<S> allocations: address -> state value
    held,       \* the Rc<S> clone the reader still holds: its address, and the value seen when handed out
    handles,    \* the Mrc<Context<S>> handles get_or_init has returned
    live,       \* subscriptions issued by subscribe and not yet removed by unsubscribe
    issued,     \* every key subscribe has returned, with the callback it was returned for
    removed,    \* callbacks whose subscription was removed by unsubscribe
    nextCb,     \* identity of the next callback passed to subscribe
    panicked,   \* scope -> whether the thread has panicked
    last        \* the latest call: operation, arguments, return value, events in program order

vars == <<contexts, ctxs, heap, held, handles, live, issued, removed, nextCb, panicked, last>>

EmptyMap == [x \in {} |-> 0]

Ev(ev, cb, val) == [ev |-> ev, cb |-> cb, val |-> val]

Call(op, scope, ctx, arg, ret, pre, panic, events) ==
    [op |-> op, scope |-> scope, ctx |-> ctx, arg |-> arg, ret |-> ret,
     pre |-> pre, panic |-> panic, events |-> events]

\* ---------------------------------------------------------------- Rc, Mrc

\* A fresh allocation: the lowest address not in use.
Alloc(h) ==
    CHOOSE a \in 1..(Cardinality(DOMAIN h) + 1) :
        /\ a \notin DOMAIN h
        /\ \A b \in 1..(a - 1) : b \in DOMAIN h

\* Rc::strong_count of the cell at address a: the Context stores and the readers pointing at it.
StrongCount(cs, hd, a) ==
    Cardinality({i \in DOMAIN cs : cs[i].store = a})
        + Cardinality({r \in hd : r.addr = a})

\* Dropping the last Rc of a cell frees it.
Collect(h, cs, hd) ==
    [a \in {b \in DOMAIN h : StrongCount(cs, hd, b) > 0} |-> h[a]]

\* The memory after the drops of a call: the cells still referenced, and the pointers to
\* them. An address means nothing beyond identity, so the cells in use are numbered 1..n
\* in the order of their addresses, and every pointer is renumbered with its cell.
Settle(h, cs, hd) ==
    LET kept == Collect(h, cs, hd)
        Rank(a) == Cardinality({b \in DOMAIN kept : b <= a})
        At(n) == CHOOSE a \in DOMAIN kept : Rank(a) = n
    IN [heap |-> [n \in 1..Cardinality(DOMAIN kept) |-> kept[At(n)]],
        ctxs |-> [i \in DOMAIN cs |-> [cs[i] EXCEPT !.store = Rank(cs[i].store)]],
        held |-> {[r EXCEPT !.addr = Rank(r.addr)] : r \in hd}]

\* Mutant: the value is mutated in place even while other Rc clones exist.
RcMakeMutInPlace(strong) == FALSE

\* Rc::make_mut clones the value into a new allocation unless the Rc is unique.
RcMakeMutClones(strong) == strong # 1

\* Mrc::new(value): a new shared cell; the pointer is its index.
MrcNew(cs) == Alloc(cs)

\* Mrc::clone(): another pointer to the same cell.
MrcClone(m) == m

\* on_change.call(state): the reader keeps the Rc it is given in place of the one it kept
\* before, or drops it at once.
Retain(hd, keep, scope, addr, v) ==
    IF keep THEN {[scope |-> scope, addr |-> addr, seen |-> v]} ELSE hd

\* ------------------------------------------------------------ get_or_init

\* Mutant: one map shared by every thread (a plain static).
ProcessWideKey(scope) == "main"

\* thread_local! { static CONTEXTS }: each thread has its own map.
ThreadLocalKey(scope) == scope

\* Mutant: every state type is stored under one key.
AnyMapKeyUntyped(ty) == "TestState"

\* entry::<Mrc<Context<S>>>(): AnyMap is keyed by the TypeId of the entry type.
AnyMapKey(ty) == ty

\* Mutant: the closure runs, and the entry is replaced, on every call.
EntryNeverOccupied(map, k) == FALSE

\* The entry is occupied: or_insert_with does not run its closure.
EntryOccupied(map, k) == k \in DOMAIN map

\* Context { store: Rc::new(S::new()), subscribers: Default::default() }
ContextNew(ty, scope, addr) ==
    [store |-> addr, subscribers |-> SlabNew, ty |-> ty, scope |-> scope]

GetOrInit(scope, ty) ==
    LET tl == ThreadLocalKey(scope)
        map == contexts[tl]
        k == AnyMapKey(ty)
        found == EntryOccupied(map, k)
        id == IF found THEN map[k] ELSE MrcNew(ctxs)
        addr == Alloc(heap)
    IN
    /\ ~panicked[scope]
    /\ IF found
       THEN UNCHANGED <<contexts, ctxs, heap>>
       ELSE /\ heap' = [a \in DOMAIN heap \cup {addr} |->
                           IF a = addr THEN StoreNew(ty) ELSE heap[a]]
            /\ ctxs' = [i \in DOMAIN ctxs \cup {id} |->
                           IF i = id THEN ContextNew(ty, scope, addr) ELSE ctxs[i]]
            /\ contexts' = [contexts EXCEPT ![tl] =
                           [x \in DOMAIN map \cup {k} |-> IF x = k THEN id ELSE map[x]]]
    /\ handles' = handles \cup {[scope |-> scope, ty |-> ty, ctx |-> MrcClone(id)]}
    /\ last' = Call("get_or_init", scope, id, ty, id, 0, FALSE,
                    IF found THEN <<>> ELSE <<Ev("new", 0, StoreNew(ty))>>)
    /\ UNCHANGED <<held, live, issued, removed, nextCb, panicked>>

\* ---------------------------------------------------------- Context::reduce

\* Mutant: every reduce reports a change.
ReduceChangedAlways(previous, store) == TRUE

\* Mutant: the flag is computed as "unchanged".
ReduceChangedNegated(previous, store) == previous = store

\* let changed = previous.as_ref() != store;
ReduceChanged(previous, store) == previous # store

\* Mutant: the hook runs whether or not the value changed.
ReduceHookAlways(ty, changed, v) == StoreChanged(ty, v)

\* Mutant: the hook is never run.
ReduceHookNever(ty, changed, v) == v

\* if changed { store.changed(); }
ReduceHook(ty, changed, v) == IF changed THEN StoreChanged(ty, v) ELSE v

\* The calls reduce makes, in program order: f(store), then the hook when changed.
ReduceEvents(changed, mutated, final) ==
    <<Ev("mutate", 0, mutated)>> \o
        (IF changed THEN <<Ev("changed", 0, final)>> ELSE <<>>)

Reduce(h, f, maxVal) ==
    LET c == ctxs[h.ctx]
        prev == c.store
        v0 == heap[prev]
        \* previous = Rc::clone(&self.store) is one more strong reference
        strong == StrongCount(ctxs, held, prev) + 1
        clones == RcMakeMutClones(strong)
        cur == IF clones THEN Alloc(heap) ELSE prev
        heap1 == [a \in DOMAIN heap \cup {cur} |-> IF a = cur THEN v0 ELSE heap[a]]
        heap2 == [heap1 EXCEPT ![cur] = Apply(f, heap1[cur])]
        changed == ReduceChanged(heap2[prev], heap2[cur])
        heap3 == [heap2 EXCEPT ![cur] = ReduceHook(c.ty, changed, heap2[cur])]
        ctxs1 == [ctxs EXCEPT ![h.ctx].store = cur]
        \* previous is dropped when reduce returns
        mem == Settle(heap3, ctxs1, held)
    IN
    /\ ~panicked[h.scope]
    /\ f = "dec" => v0 > 0
    /\ heap3[cur] <= maxVal
    /\ ctxs' = mem.ctxs
    /\ heap' = mem.heap
    /\ held' = mem.held
    /\ last' = Call("reduce", h.scope, h.ctx, f, changed, v0, FALSE,
                    ReduceEvents(changed, heap2[cur], heap3[cur]))
    /\ UNCHANGED <<contexts, handles, live, issued, removed, nextCb, panicked>>

\* ------------------------------------------------------- Context::subscribe

\* Mutant: the callback is registered first and called afterwards.
SubscribeEventsInsertFirst(cb, v, key) == <<Ev("insert", cb, key), Ev("call", cb, v)>>

\* on_change.call(Rc::clone(&self.store)); then self.subscribers.insert(Box::new(on_change))
SubscribeEvents(cb, v, key) == <<Ev("call", cb, v), Ev("insert", cb, key)>>

Subscribe(h, retain, maxCb) ==
    LET c == ctxs[h.ctx]
        cb == nextCb
        v == heap[c.store]
        key == SlabVacantKey(c.subscribers)
        held1 == Retain(held, retain, h.scope, c.store, v)
        ctxs1 == [ctxs EXCEPT ![h.ctx].subscribers = SlabInsert(c.subscribers, cb)]
        mem == Settle(heap, ctxs1, held1)
    IN
    /\ ~panicked[h.scope]
    /\ nextCb <= maxCb
    /\ held' = mem.held
    /\ heap' = mem.heap
    /\ ctxs' = mem.ctxs
    /\ live' = live \cup {[ctx |-> h.ctx, key |-> key, cb |-> cb]}
    /\ issued' = issued \cup {[ctx |-> h.ctx, key |-> key, cb |-> cb]}
    /\ nextCb' = nextCb + 1
    /\ last' = Call("subscribe", h.scope, h.ctx, cb, key, v, FALSE,
                    SubscribeEvents(cb, v, key))
    /\ UNCHANGED <<contexts, handles, removed, panicked>>

\* ----------------------------------------------------- Context::unsubscribe

\* self.subscribers.remove(id): Slab::remove panics ("invalid key") on a vacant key.
RemovePanics(s, key) == ~SlabContains(s, key)

\* The panic unwinds the thread: its stack (handles, readers) and its thread locals are dropped.
Unwind(scope) ==
    LET ctxs1 == [i \in {j \in DOMAIN ctxs : ctxs[j].scope # scope} |-> ctxs[i]]
        held1 == {r \in held : r.scope # scope}
        mem == Settle(heap, ctxs1, held1)
    IN
    /\ panicked' = [panicked EXCEPT ![scope] = TRUE]
    /\ contexts' = [contexts EXCEPT ![ThreadLocalKey(scope)] = EmptyMap]
    /\ handles' = {g \in handles : g.scope # scope}
    /\ ctxs' = mem.ctxs
    /\ held' = mem.held
    /\ heap' = mem.heap
    /\ live' = {l \in live : l.ctx \in DOMAIN ctxs1}
    /\ issued' = {l \in issued : l.ctx \in DOMAIN ctxs1}

\* Whose handle the key is: the callbacks subscribe has returned it for, or 0 for a
\* number that subscribe has never returned on this Context.
Owners(i, key) ==
    LET cbs == {l.cb : l \in {m \in issued : m.ctx = i /\ m.key = key}} IN
    IF cbs = {} THEN {0} ELSE cbs

\* The caller of unsubscribe(id) passes the key that subscribe returned for callback `owner`.
Unsubscribe(h, key, owner) ==
    LET c == ctxs[h.ctx]
        v == heap[c.store]
        id == [key |-> key, owner |-> owner]
        \* the handle is live: subscribe returned it and no unsubscribe has removed it
        wasLive == \E l \in live : l.ctx = h.ctx /\ l.key = key
    IN
    /\ ~panicked[h.scope]
    /\ owner \in Owners(h.ctx, key)
    /\ IF RemovePanics(c.subscribers, key)
       THEN /\ Unwind(h.scope)
            /\ last' = Call("unsubscribe", h.scope, h.ctx, id, wasLive, v, TRUE, <<>>)
            /\ UNCHANGED <<removed, nextCb>>
       ELSE LET cb == c.subscribers.entries[key + 1].val IN
            /\ ctxs' = [ctxs EXCEPT ![h.ctx].subscribers = SlabRemove(c.subscribers, key)]
            /\ live' = {l \in live : ~(l.ctx = h.ctx /\ l.key = key)}
            /\ removed' = removed \cup {cb}
            /\ last' = Call("unsubscribe", h.scope, h.ctx, id, wasLive, v, FALSE,
                            <<Ev("remove", cb, key)>>)
            /\ UNCHANGED <<contexts, heap, held, handles, issued, nextCb, panicked>>

\* ----------------------------------------------- Context::notify_subscribers

\* Mutant: the loop ends after the first subscriber.
NotifyEventsHeadOnly(cbs, v) ==
    IF cbs = <<>> THEN <<>> ELSE <<Ev("call", Head(cbs), v)>>

RECURSIVE NotifyEvents(_, _)
\* for (_, subscriber) in &self.subscribers { subscriber.call(Rc::clone(&self.store)) }
NotifyEvents(cbs, v) ==
    IF cbs = <<>> THEN <<>>
    ELSE <<Ev("call", Head(cbs), v)>> \o NotifyEvents(Tail(cbs), v)

NotifySubscribers(h, keep) ==
    LET c == ctxs[h.ctx]
        v == heap[c.store]
        cbs == SlabIter(c.subscribers)
        held1 == Retain(held, keep, h.scope, c.store, v)
        mem == Settle(heap, ctxs, held1)
    IN
    /\ ~panicked[h.scope]
    /\ keep => cbs # <<>>
    /\ held' = mem.held
    /\ heap' = mem.heap
    /\ ctxs' = mem.ctxs
    /\ last' = Call("notify_subscribers", h.scope, h.ctx, 0, 0, v, FALSE,
                    NotifyEvents(cbs, v))
    /\ UNCHANGED <<contexts, handles, live, issued, removed, nextCb, panicked>>

\* --------------------------------------------------------- specifications

Init ==
    /\ contexts = [s \in Scopes |-> EmptyMap]
    /\ ctxs = EmptyMap
    /\ heap = EmptyMap
    /\ held = {}
    /\ handles = {}
    /\ live = {}
    /\ issued = {}
    /\ removed = {}
    /\ nextCb = 1
    /\ panicked = [s \in Scopes |-> FALSE]
    /\ last = Call("init", "main", 0, 0, 0, 0, FALSE, <<>>)

\* One thread, one state type, every mutation, readers that keep what they are given.
Next ==
    \/ \E ty \in {"TestState"} : GetOrInit("main", ty)
    \/ \E h \in handles, f \in Mutations : Reduce(h, f, MaxVal)
    \/ \E h \in handles, retain \in BOOLEAN : Subscribe(h, retain, MaxCb)
    \/ \E h \in handles, key \in 0..MaxCb : \E owner \in Owners(h.ctx, key) :
            Unsubscribe(h, key, owner)
    \/ \E h \in handles, keep \in BOOLEAN : NotifySubscribers(h, keep)

Spec == Init /\ [][Next]_vars

\* The lazily created Contexts of one thread and two state types.
NextTypes ==
    \/ \E ty \in Types : GetOrInit("main", ty)
    \/ \E h \in handles : Reduce(h, "inc", RegMaxVal)
    \/ \E h \in handles : Subscribe(h, FALSE, RegMaxCb)
    \/ \E h \in handles, key \in 0..RegMaxCb : \E owner \in Owners(h.ctx, key) :
            Unsubscribe(h, key, owner)
    \/ \E h \in handles : NotifySubscribers(h, FALSE)

SpecTypes == Init /\ [][NextTypes]_vars

\* Two threads and one state type, each thread acting through the handles it obtained.
NextScopes ==
    \/ \E s \in Scopes : GetOrInit(s, "TestState")
    \/ \E h \in handles : Reduce(h, "inc", RegMaxVal)
    \/ \E h \in handles : Subscribe(h, FALSE, RegMaxCb)
    \/ \E h \in handles, key \in 0..RegMaxCb : \E owner \in Owners(h.ctx, key) :
            Unsubscribe(h, key, owner)
    \/ \E h \in handles : NotifySubscribers(h, FALSE)

SpecScopes == Init /\ [][NextScopes]_vars

\* ------------------------------------------------------ reading the state

\* The value a read of the Context's store returns.
Value(i) == heap[ctxs[i].store]

\* The callbacks notify_subscribers would reach.
Registered(i) ==
    LET cbs == SlabIter(ctxs[i].subscribers) IN {cbs[k] : k \in DOMAIN cbs}

\* What another holder of the Context observes: its value and its subscribers.
View(i) == [value |-> Value(i), subscribers |-> ctxs[i].subscribers]

\* Positions of the latest call's events of one kind.
EventsOf(kind) == {k \in DOMAIN last.events : last.events[k].ev = kind}

\* How often the latest call invoked callback cb with value v.
Invocations(cb, v) ==
    Cardinality({k \in DOMAIN last.events : last.events[k] = Ev("call", cb, v)})

\* The latest call was a reduce whose closure left a value unequal to the previous one.
Altering ==
    /\ last.op = "reduce"
    /\ Apply(last.arg, last.pre) # last.pre

\* The latest call was a reduce whose closure left the value equal to the previous one.
NoOp ==
    /\ last.op = "reduce"
    /\ Apply(last.arg, last.pre) = last.pre

\* Every registered callback was invoked exactly once, with the stored value, and no other.
Delivered(i) ==
    /\ \A cb \in Registered(i) : Invocations(cb, Value(i)) = 1
    /\ Cardinality(EventsOf("call")) = Cardinality(Registered(i))

\* ------------------------------------------------------------------ claims

C2_NoOpReduce ==
    NoOp => /\ last.ret = FALSE
            /\ EventsOf("changed") = {}
            /\ EventsOf("call") = {}
            /\ Value(last.ctx) = last.pre

C2_Witness ==
    /\ NoOp
    /\ last.arg = "zero"
    /\ Registered(last.ctx) # {}
    /\ held # {}

\* C3: a reduce whose mutation altered the value runs the changed hook exactly once, after
\* the mutation, and the stored value is the hook applied to the mutated value.
C3_HookOnce ==
    Altering =>
        /\ Cardinality(EventsOf("changed")) = 1
        /\ \A k \in EventsOf("changed") : \E m \in EventsOf("mutate") : m < k
        /\ Value(last.ctx) = StoreChanged(ctxs[last.ctx].ty, Apply(last.arg, last.pre))

\* initial 0 and a mutation +1 yield a stored value of 2
C3_Witness ==
    /\ Altering
    /\ last.arg = "inc"
    /\ last.pre = 0
    /\ Value(last.ctx) = 2

\* C4: subscribe invokes the callback exactly once, before inserting it, with the value
\* stored at the call, whatever subscribers exist already, and returns the key under which
\* the callback is then registered.
C4_SubscribeCallsOnce ==
    last.op = "subscribe" =>
        /\ Invocations(last.arg, last.pre) = 1
        /\ Cardinality(EventsOf("call")) = 1
        /\ \A k \in EventsOf("call") : \A n \in EventsOf("insert") : k < n
        /\ Value(last.ctx) = last.pre
        /\ SlabContains(ctxs[last.ctx].subscribers, last.ret)
        /\ ctxs[last.ctx].subscribers.entries[last.ret + 1].val = last.arg

C4_Witness ==
    /\ last.op = "subscribe"
    /\ Cardinality(Registered(last.ctx)) = 3
    /\ last.pre = 2

\* C5: once unsubscribe has removed a callback, no later call invokes it.
C5_NoCallAfterUnsubscribe ==
    \A k \in EventsOf("call") : last.events[k].cb \notin removed

\* a notification after a removal whose slot has been taken by a later registration
C5_Witness ==
    /\ last.op = "notify_subscribers"
    /\ removed = {1}
    /\ Registered(last.ctx) = {2, 3}
    /\ SlabIter(ctxs[last.ctx].subscribers) = <<3, 2>>

\* C6 as stated: unsubscribe with a handle that is not live neither crashes nor changes
\* the stored value or the registered subscribers.
C6_UnsubscribeDeadHandleIsNoOp ==
    (last.op = "unsubscribe" /\ last.ret = FALSE) =>
        /\ ~last.panic
        /\ ~panicked[last.scope]
        /\ last.ctx \in DOMAIN ctxs
        /\ Value(last.ctx) = last.pre

\* C7: within a scope, get_or_init returns the same Context for the same state type, one
\* Context exists per scope and type, and Contexts of different types share neither their
\* value cell nor their subscribers.
C7_OneContextPerType ==
    /\ \A g \in handles, h \in handles :
          /\ (g.scope = h.scope /\ g.ty = h.ty) => g.ctx = h.ctx
          /\ g.ty # h.ty =>
                /\ g.ctx # h.ctx
                /\ ctxs[g.ctx].store # ctxs[h.ctx].store
                /\ Registered(g.ctx) \cap Registered(h.ctx) = {}
    /\ \A i \in DOMAIN ctxs, j \in DOMAIN ctxs :
          (ctxs[i].scope = ctxs[j].scope /\ ctxs[i].ty = ctxs[j].ty) => i = j
    /\ \A h \in handles :
          /\ h.ctx \in DOMAIN ctxs
          /\ ctxs[h.ctx].ty = h.ty
          /\ contexts[ThreadLocalKey(h.scope)][AnyMapKey(h.ty)] = h.ctx

\* a repeated get_or_init returns the Context that earlier calls have changed
C7_Witness ==
    /\ last.op = "get_or_init"
    /\ last.events = <<>>
    /\ Cardinality(handles) = 2
    /\ Value(last.ctx) # StoreNew(last.arg)
    /\ Registered(last.ctx) # {}
    /\ \E h \in handles : h.ctx # last.ctx /\ Value(h.ctx) # Value(last.ctx)

\* C8: the Rc a reader was handed keeps the value it had when handed out, whatever reduce
\* calls follow, and a read after a reduce returns the value that reduce stored.
C8_ReadersKeepTheirValue ==
    /\ \A r \in held : r.addr \in DOMAIN heap /\ heap[r.addr] = r.seen
    /\ last.op = "reduce" =>
          Value(last.ctx) = last.events[Len(last.events)].val

C8_Witness ==
    /\ Altering
    /\ \E r \in held : /\ r.seen = last.pre
                       /\ r.seen # Value(last.ctx)
                       /\ r.addr # ctxs[last.ctx].store

\* C9: no two live subscriptions of a Context have the same key, and the key subscribe
\* returns is the key of no other live subscription.
C9_LiveKeysDistinct ==
    /\ \A l \in live, m \in live : (l.ctx = m.ctx /\ l.key = m.key) => l = m
    /\ last.op = "subscribe" =>
          \A l \in live : (l.ctx = last.ctx /\ l.key = last.ret) => l.cb = last.arg

\* a key handed out a second time while another subscription is live
C9_Witness ==
    /\ last.op = "subscribe"
    /\ last.ret = 0
    /\ last.arg = 3
    /\ \E l \in live : l.ctx = last.ctx /\ l.key = 1

\* C10: a call made in one scope changes neither the value nor the subscribers of a
\* Context that a handle of another scope refers to.
C10_ScopesIndependent ==
    [][\A g \in handles :
          g.scope # last'.scope =>
              /\ g \in handles'
              /\ g.ctx \in DOMAIN ctxs'
              /\ View(g.ctx)' = View(g.ctx)]_vars

\* the worker thread has changed its Context's value while main's has subscribers
C10_Witness ==
    /\ last.op = "reduce"
    /\ last.scope = "worker"
    /\ last.ret = TRUE
    /\ \E g \in handles : /\ g.scope = "main"
                          /\ Registered(g.ctx) # {}
                          /\ Value(g.ctx) # Value(last.ctx)

C12_NotifyReachesAll ==
    /\ [](last.op = "notify_subscribers" =>
            /\ Delivered(last.ctx)
            /\ \A k \in EventsOf("call") : last.events[k].cb \notin removed
            /\ Value(last.ctx) = last.pre)
    /\ [][last'.op = "notify_subscribers" =>
            /\ ctxs'[last'.ctx].subscribers = ctxs[last'.ctx].subscribers
            /\ heap'[ctxs'[last'.ctx].store] = Value(last'.ctx)]_vars

C12_Witness ==
    /\ last.op = "notify_subscribers"
    /\ Registered(last.ctx) = {1, 3}
    /\ removed = {2}

\* C13: the first get_or_init for a state type in a scope creates a Context holding
\* Store::new() and no subscribers; a later one creates nothing and leaves the value and
\* the subscribers as they are; no entry of a running thread's map is removed or replaced.
C13_CreatedOnce ==
    [][/\ last'.op = "get_or_init" =>
            LET first == ~\E g \in handles : g.scope = last'.scope /\ g.ty = last'.arg IN
            IF first
            THEN /\ last'.events = <<Ev("new", 0, StoreNew(last'.arg))>>
                 /\ last'.ctx \notin DOMAIN ctxs
                 /\ heap'[ctxs'[last'.ctx].store] = StoreNew(last'.arg)
                 /\ ctxs'[last'.ctx].subscribers = SlabNew
            ELSE /\ last'.events = <<>>
                 /\ last'.ctx \in DOMAIN ctxs
                 /\ heap'[ctxs'[last'.ctx].store] = Value(last'.ctx)
                 /\ ctxs'[last'.ctx].subscribers = ctxs[last'.ctx].subscribers
       /\ \A sc \in Scopes :
            ~panicked'[sc] =>
                \A k \in DOMAIN contexts[sc] :
                    /\ k \in DOMAIN contexts'[sc]
                    /\ contexts'[sc][k] = contexts[sc][k]]_vars

C13_Witness ==
    /\ last.op = "get_or_init"
    /\ last.events = <<>>
    /\ last.arg = "Counter"
    /\ Value(last.ctx) = 2
    /\ Cardinality(Registered(last.ctx)) = 2

\* C14 as stated: unsubscribe called with the key subscribe returned for a callback
\* removes no subscriber other than that callback, also when the key was removed before
\* and its slot has been reused.
C14_RemovesOnlyItsOwn ==
    (last.op = "unsubscribe" /\ last.arg.owner # 0) =>
        \A k \in EventsOf("remove") : last.events[k].cb = last.arg.owner

\* C15: reduce returns true exactly when the value the closure leaves differs from the
\* previous value, whatever the changed hook does to it afterwards.
C15_FlagFromMutation ==
    last.op = "reduce" => (last.ret = (Apply(last.arg, last.pre) # last.pre))

\* the hook restores the previous value, and reduce still returns true
C15_Witness ==
    /\ last.op = "reduce"
    /\ last.arg = "dec"
    /\ last.ret = TRUE
    /\ Value(last.ctx) = last.pre

====
